---- MODULE Spec2Model ----
(***************************************************************************)
(* Breadth-first search over an adjacency mapping: the three functions of  *)
(* bfs_algorithm.py (breadth_first_search, bfs_shortest_path and           *)
(* bfs_connected_components) as one state machine.  A behaviour is one     *)
(* call: Init picks the function and its arguments, every action is one    *)
(* step of the function's loops, and pc = "done" is the call's return or   *)
(* raise.                                                                  *)
(***************************************************************************)
EXTENDS Integers, Sequences, FiniteSets

\* Bounds of the explored inputs.
NumVertices == 3
MaxEdges == 3

Vertices == 1..NumVertices

VARIABLES
    graph,       \* the dict: a sequence of [key, adj] entries in insertion order
    op,          \* which function is called: "bfs", "sp" or "cc"
    start,       \* start_node / start
    target,      \* target (bfs_shortest_path only)
    pc,          \* "entry", "while", "for", "keys" or "done"
    visited,     \* the visited set
    queue,       \* the deque: vertices, or <<vertex, path>> pairs in "sp"
    result,      \* breadth_first_search's result list
    current,     \* current_vertex / current
    path,        \* the path popped with current_vertex ("sp")
    pending,     \* the neighbours the for loop has still to take
    components,  \* bfs_connected_components' components list
    component,   \* the component being collected
    keyIdx,      \* position of the for loop over the dict's keys
    ret,         \* what the call produced: [kind, val]
    nEnq,        \* history: how often each vertex was put on the queue
    nDeq         \* history: how often each vertex was taken off the queue

vars == <<graph, op, start, target, pc, visited, queue, result, current, path,
          pending, components, component, keyIdx, ret, nEnq, nDeq>>

----------------------------------------------------------------------------
\* The graph argument.

\* All lists of at most n vertices (adjacency lists may repeat a vertex,
\* name the vertex itself, or name a vertex that is no key).
Lists(n) == UNION {[1..k -> Vertices] : k \in 0..n}

\* All dicts of the keys k..n, inserted in that order, holding at most e
\* adjacency entries in total.
RECURSIVE GraphsFrom(_, _, _)
GraphsFrom(k, n, e) ==
    IF k > n
    THEN {<<>>}
    ELSE UNION { { <<[key |-> k, adj |-> l]>> \o g :
                     g \in GraphsFrom(k + 1, n, e - Len(l)) } :
                 l \in Lists(e) }

\* The code only hashes and compares vertex labels, so the keys are named by
\* their insertion order: a dict of n keys has the keys 1..n, inserted as
\* 1, 2, ..., n, and the vertices n+1..NumVertices are no keys.
Graphs == UNION {GraphsFrom(1, n, MaxEdges) : n \in 0..NumVertices}

\* `v in graph` / iterating the dict: its keys.
Keys(g) == {g[i].key : i \in 1..Len(g)}

\* graph.get(v, []): the adjacency list of a key, the empty list otherwise.
Get(g, v) ==
    IF \E i \in 1..Len(g) : g[i].key = v
    THEN g[CHOOSE i \in 1..Len(g) : g[i].key = v].adj
    ELSE <<>>

\* No return value yet; no vertex enqueued or dequeued yet.
Unset == [kind |-> "unset", val |-> <<>>]
Zero == [v \in Vertices |-> 0]

Init ==
    /\ graph \in Graphs
    /\ op \in {"bfs", "sp", "cc"}
    /\ start \in (IF op = "cc" THEN {0} ELSE Vertices)
    /\ target \in (IF op = "sp" THEN Vertices ELSE {0})
    /\ pc = "entry"
    /\ visited = {}
    /\ queue = <<>>
    /\ result = <<>>
    /\ current = 0
    /\ path = <<>>
    /\ pending = <<>>
    /\ components = <<>>
    /\ component = <<>>
    /\ keyIdx = 1
    /\ ret = Unset
    /\ nEnq = Zero
    /\ nDeq = Zero

----------------------------------------------------------------------------
\* breadth_first_search(graph, start_node)

\* if start_node not in graph: raise ValueError
BfsRaise ==
    /\ op = "bfs" /\ pc = "entry"
    /\ start \notin Keys(graph)
    /\ ret' = [kind |-> "error", val |-> <<>>]
    /\ pc' = "done"
    /\ UNCHANGED <<graph, op, start, target, visited, queue, result, current,
                   path, pending, components, component, keyIdx, nEnq, nDeq>>

\* BfsStart with `visited.add(start_node)` left out.
BfsStartNoMark ==
    /\ op = "bfs" /\ pc = "entry"
    /\ start \in Keys(graph)
    /\ visited' = {}
    /\ result' = <<>>
    /\ queue' = <<start>>
    /\ nEnq' = [nEnq EXCEPT ![start] = @ + 1]
    /\ pc' = "while"
    /\ UNCHANGED <<graph, op, start, target, current, path, pending,
                   components, component, keyIdx, ret, nDeq>>

\* visited = set(); result = []; queue = deque([start_node]); visited.add(start_node)
BfsStart ==
    /\ op = "bfs" /\ pc = "entry"
    /\ start \in Keys(graph)
    /\ visited' = {start}
    /\ result' = <<>>
    /\ queue' = <<start>>
    /\ nEnq' = [nEnq EXCEPT ![start] = @ + 1]
    /\ pc' = "while"
    /\ UNCHANGED <<graph, op, start, target, current, path, pending,
                   components, component, keyIdx, ret, nDeq>>

\* BfsDequeue with graph[current_vertex] in place of
\* graph.get(current_vertex, []): a vertex that is no key raises.
BfsDequeueKeyError ==
    /\ op = "bfs" /\ pc = "while"
    /\ queue # <<>>
    /\ current' = Head(queue)
    /\ queue' = Tail(queue)
    /\ result' = Append(result, Head(queue))
    /\ nDeq' = [nDeq EXCEPT ![Head(queue)] = @ + 1]
    /\ pending' = Get(graph, Head(queue))
    /\ IF Head(queue) \in Keys(graph)
       THEN /\ pc' = IF Get(graph, Head(queue)) = <<>> THEN "while" ELSE "for"
            /\ ret' = ret
       ELSE /\ pc' = "done"
            /\ ret' = [kind |-> "error", val |-> <<>>]
    /\ UNCHANGED <<graph, op, start, target, visited, path, components,
                   component, keyIdx, nEnq>>

\* while queue: current_vertex = queue.popleft(); result.append(current_vertex)
\* and the for loop's iterator over graph.get(current_vertex, [])
BfsDequeue ==
    /\ op = "bfs" /\ pc = "while"
    /\ queue # <<>>
    /\ current' = Head(queue)
    /\ queue' = Tail(queue)
    /\ result' = Append(result, Head(queue))
    /\ nDeq' = [nDeq EXCEPT ![Head(queue)] = @ + 1]
    /\ pending' = Get(graph, Head(queue))
    /\ pc' = IF Get(graph, Head(queue)) = <<>> THEN "while" ELSE "for"
    /\ UNCHANGED <<graph, op, start, target, visited, path, components,
                   component, keyIdx, ret, nEnq>>

\* one iteration of `for neighbor in ...`: enqueue the neighbour if unvisited
BfsScan ==
    /\ op = "bfs" /\ pc = "for"
    /\ LET neighbor == Head(pending) IN
         IF neighbor \notin visited
         THEN /\ visited' = visited \cup {neighbor}
              /\ queue' = Append(queue, neighbor)
              /\ nEnq' = [nEnq EXCEPT ![neighbor] = @ + 1]
         ELSE UNCHANGED <<visited, queue, nEnq>>
    /\ pending' = Tail(pending)
    /\ pc' = IF Tail(pending) = <<>> THEN "while" ELSE "for"
    /\ UNCHANGED <<graph, op, start, target, result, current, path,
                   components, component, keyIdx, ret, nDeq>>

\* the queue is empty: return result
BfsReturn ==
    /\ op = "bfs" /\ pc = "while"
    /\ queue = <<>>
    /\ ret' = [kind |-> "list", val |-> result]
    /\ pc' = "done"
    /\ UNCHANGED <<graph, op, start, target, visited, queue, result, current,
                   path, pending, components, component, keyIdx, nEnq, nDeq>>

----------------------------------------------------------------------------
\* bfs_shortest_path(graph, start, target)

\* if start not in graph or target not in graph: return None
SpReturnMissing ==
    /\ op = "sp" /\ pc = "entry"
    /\ start \notin Keys(graph) \/ target \notin Keys(graph)
    /\ ret' = [kind |-> "none", val |-> <<>>]
    /\ pc' = "done"
    /\ UNCHANGED <<graph, op, start, target, visited, queue, result, current,
                   path, pending, components, component, keyIdx, nEnq, nDeq>>

\* SpReturnTrivial with the `if start == target` test left out: the search
\* starts as for any other target.
SpSearchTrivial ==
    /\ op = "sp" /\ pc = "entry"
    /\ start \in Keys(graph) /\ target \in Keys(graph)
    /\ start = target
    /\ queue' = <<[vertex |-> start, path |-> <<start>>]>>
    /\ visited' = {start}
    /\ nEnq' = [nEnq EXCEPT ![start] = @ + 1]
    /\ pc' = "while"
    /\ UNCHANGED <<graph, op, start, target, result, current, path, pending,
                   components, component, keyIdx, ret, nDeq>>

\* if start == target: return [start]
SpReturnTrivial ==
    /\ op = "sp" /\ pc = "entry"
    /\ start \in Keys(graph) /\ target \in Keys(graph)
    /\ start = target
    /\ ret' = [kind |-> "list", val |-> <<start>>]
    /\ pc' = "done"
    /\ UNCHANGED <<graph, op, start, target, visited, queue, result, current,
                   path, pending, components, component, keyIdx, nEnq, nDeq>>

\* SpStart with `visited = set()` in place of `visited = set([start])`.
SpStartNoMark ==
    /\ op = "sp" /\ pc = "entry"
    /\ start \in Keys(graph) /\ target \in Keys(graph)
    /\ start # target
    /\ queue' = <<[vertex |-> start, path |-> <<start>>]>>
    /\ visited' = {}
    /\ nEnq' = [nEnq EXCEPT ![start] = @ + 1]
    /\ pc' = "while"
    /\ UNCHANGED <<graph, op, start, target, result, current, path, pending,
                   components, component, keyIdx, ret, nDeq>>

\* queue = deque([(start, [start])]); visited = set([start])
SpStart ==
    /\ op = "sp" /\ pc = "entry"
    /\ start \in Keys(graph) /\ target \in Keys(graph)
    /\ start # target
    /\ queue' = <<[vertex |-> start, path |-> <<start>>]>>
    /\ visited' = {start}
    /\ nEnq' = [nEnq EXCEPT ![start] = @ + 1]
    /\ pc' = "while"
    /\ UNCHANGED <<graph, op, start, target, result, current, path, pending,
                   components, component, keyIdx, ret, nDeq>>

\* while queue: current_vertex, path = queue.popleft()
\* and the for loop's iterator over graph.get(current_vertex, [])
SpDequeue ==
    /\ op = "sp" /\ pc = "while"
    /\ queue # <<>>
    /\ current' = Head(queue).vertex
    /\ path' = Head(queue).path
    /\ queue' = Tail(queue)
    /\ nDeq' = [nDeq EXCEPT ![Head(queue).vertex] = @ + 1]
    /\ pending' = Get(graph, Head(queue).vertex)
    /\ pc' = IF Get(graph, Head(queue).vertex) = <<>> THEN "while" ELSE "for"
    /\ UNCHANGED <<graph, op, start, target, visited, result, components,
                   component, keyIdx, ret, nEnq>>

\* if neighbor == target: return path + [neighbor]
SpFound ==
    /\ op = "sp" /\ pc = "for"
    /\ Head(pending) = target
    /\ ret' = [kind |-> "list", val |-> Append(path, Head(pending))]
    /\ pc' = "done"
    /\ UNCHANGED <<graph, op, start, target, visited, queue, result, current,
                   path, pending, components, component, keyIdx, nEnq, nDeq>>

\* SpScan enqueueing (neighbor, path) in place of (neighbor, path + [neighbor]).
SpScanShortPath ==
    /\ op = "sp" /\ pc = "for"
    /\ Head(pending) # target
    /\ LET neighbor == Head(pending) IN
         IF neighbor \notin visited
         THEN /\ visited' = visited \cup {neighbor}
              /\ queue' = Append(queue, [vertex |-> neighbor, path |-> path])
              /\ nEnq' = [nEnq EXCEPT ![neighbor] = @ + 1]
         ELSE UNCHANGED <<visited, queue, nEnq>>
    /\ pending' = Tail(pending)
    /\ pc' = IF Tail(pending) = <<>> THEN "while" ELSE "for"
    /\ UNCHANGED <<graph, op, start, target, result, current, path,
                   components, component, keyIdx, ret, nDeq>>

\* otherwise: enqueue (neighbor, path + [neighbor]) if the neighbour is unvisited
SpScan ==
    /\ op = "sp" /\ pc = "for"
    /\ Head(pending) # target
    /\ LET neighbor == Head(pending) IN
         IF neighbor \notin visited
         THEN /\ visited' = visited \cup {neighbor}
              /\ queue' = Append(queue, [vertex |-> neighbor,
                                         path |-> Append(path, neighbor)])
              /\ nEnq' = [nEnq EXCEPT ![neighbor] = @ + 1]
         ELSE UNCHANGED <<visited, queue, nEnq>>
    /\ pending' = Tail(pending)
    /\ pc' = IF Tail(pending) = <<>> THEN "while" ELSE "for"
    /\ UNCHANGED <<graph, op, start, target, result, current, path,
                   components, component, keyIdx, ret, nDeq>>

\* the queue is empty: return None
SpReturnNone ==
    /\ op = "sp" /\ pc = "while"
    /\ queue = <<>>
    /\ ret' = [kind |-> "none", val |-> <<>>]
    /\ pc' = "done"
    /\ UNCHANGED <<graph, op, start, target, visited, queue, result, current,
                   path, pending, components, component, keyIdx, nEnq, nDeq>>

----------------------------------------------------------------------------
\* bfs_connected_components(graph)

\* visited = set(); components = []
CcStart ==
    /\ op = "cc" /\ pc = "entry"
    /\ visited' = {}
    /\ components' = <<>>
    /\ keyIdx' = 1
    /\ pc' = "keys"
    /\ UNCHANGED <<graph, op, start, target, queue, result, current, path,
                   pending, component, ret, nEnq, nDeq>>

\* for vertex in graph: the vertex is visited already, take the next key
CcSkipKey ==
    /\ op = "cc" /\ pc = "keys"
    /\ keyIdx <= Len(graph)
    /\ graph[keyIdx].key \in visited
    /\ keyIdx' = keyIdx + 1
    /\ UNCHANGED <<graph, op, start, target, pc, visited, queue, result,
                   current, path, pending, components, component, ret, nEnq,
                   nDeq>>

\* CcSeed with `visited.add(vertex)` left out.
CcSeedNoMark ==
    /\ op = "cc" /\ pc = "keys"
    /\ keyIdx <= Len(graph)
    /\ graph[keyIdx].key \notin visited
    /\ LET vertex == graph[keyIdx].key IN
         /\ component' = <<>>
         /\ queue' = <<vertex>>
         /\ visited' = visited
         /\ nEnq' = [nEnq EXCEPT ![vertex] = @ + 1]
    /\ keyIdx' = keyIdx + 1
    /\ pc' = "while"
    /\ UNCHANGED <<graph, op, start, target, result, current, path, pending,
                   components, ret, nDeq>>

\* CcSeed with a visited set of its own for every component
\* (`visited = {vertex}`) in place of the one shared set.
CcSeedOwnVisited ==
    /\ op = "cc" /\ pc = "keys"
    /\ keyIdx <= Len(graph)
    /\ graph[keyIdx].key \notin visited
    /\ LET vertex == graph[keyIdx].key IN
         /\ component' = <<>>
         /\ queue' = <<vertex>>
         /\ visited' = {vertex}
         /\ nEnq' = [nEnq EXCEPT ![vertex] = @ + 1]
    /\ keyIdx' = keyIdx + 1
    /\ pc' = "while"
    /\ UNCHANGED <<graph, op, start, target, result, current, path, pending,
                   components, ret, nDeq>>

\* if vertex not in visited: component = []; queue = deque([vertex]);
\* visited.add(vertex)
CcSeed ==
    /\ op = "cc" /\ pc = "keys"
    /\ keyIdx <= Len(graph)
    /\ graph[keyIdx].key \notin visited
    /\ LET vertex == graph[keyIdx].key IN
         /\ component' = <<>>
         /\ queue' = <<vertex>>
         /\ visited' = visited \cup {vertex}
         /\ nEnq' = [nEnq EXCEPT ![vertex] = @ + 1]
    /\ keyIdx' = keyIdx + 1
    /\ pc' = "while"
    /\ UNCHANGED <<graph, op, start, target, result, current, path, pending,
                   components, ret, nDeq>>

\* CcDequeue with `component.append(current)` left out.
CcDequeueNoEmit ==
    /\ op = "cc" /\ pc = "while"
    /\ queue # <<>>
    /\ current' = Head(queue)
    /\ queue' = Tail(queue)
    /\ component' = component
    /\ nDeq' = [nDeq EXCEPT ![Head(queue)] = @ + 1]
    /\ pending' = Get(graph, Head(queue))
    /\ pc' = IF Get(graph, Head(queue)) = <<>> THEN "while" ELSE "for"
    /\ UNCHANGED <<graph, op, start, target, visited, result, path,
                   components, keyIdx, ret, nEnq>>

\* while queue: current = queue.popleft(); component.append(current)
\* and the for loop's iterator over graph.get(current, [])
CcDequeue ==
    /\ op = "cc" /\ pc = "while"
    /\ queue # <<>>
    /\ current' = Head(queue)
    /\ queue' = Tail(queue)
    /\ component' = Append(component, Head(queue))
    /\ nDeq' = [nDeq EXCEPT ![Head(queue)] = @ + 1]
    /\ pending' = Get(graph, Head(queue))
    /\ pc' = IF Get(graph, Head(queue)) = <<>> THEN "while" ELSE "for"
    /\ UNCHANGED <<graph, op, start, target, visited, result, path,
                   components, keyIdx, ret, nEnq>>

\* CcScan with `queue.append(neighbor)` left out.
CcScanNoEnqueue ==
    /\ op = "cc" /\ pc = "for"
    /\ LET neighbor == Head(pending) IN
         IF neighbor \notin visited
         THEN /\ visited' = visited \cup {neighbor}
              /\ UNCHANGED <<queue, nEnq>>
         ELSE UNCHANGED <<visited, queue, nEnq>>
    /\ pending' = Tail(pending)
    /\ pc' = IF Tail(pending) = <<>> THEN "while" ELSE "for"
    /\ UNCHANGED <<graph, op, start, target, result, current, path,
                   components, component, keyIdx, ret, nDeq>>

\* one iteration of `for neighbor in ...`: enqueue the neighbour if unvisited
CcScan ==
    /\ op = "cc" /\ pc = "for"
    /\ LET neighbor == Head(pending) IN
         IF neighbor \notin visited
         THEN /\ visited' = visited \cup {neighbor}
              /\ queue' = Append(queue, neighbor)
              /\ nEnq' = [nEnq EXCEPT ![neighbor] = @ + 1]
         ELSE UNCHANGED <<visited, queue, nEnq>>
    /\ pending' = Tail(pending)
    /\ pc' = IF Tail(pending) = <<>> THEN "while" ELSE "for"
    /\ UNCHANGED <<graph, op, start, target, result, current, path,
                   components, component, keyIdx, ret, nDeq>>

\* CcAppend with `components = [component]` in place of
\* `components.append(component)`.
CcAppendReplace ==
    /\ op = "cc" /\ pc = "while"
    /\ queue = <<>>
    /\ components' = <<component>>
    /\ pc' = "keys"
    /\ UNCHANGED <<graph, op, start, target, visited, queue, result, current,
                   path, pending, component, keyIdx, ret, nEnq, nDeq>>

\* the queue is empty: components.append(component), back to the keys
CcAppend ==
    /\ op = "cc" /\ pc = "while"
    /\ queue = <<>>
    /\ components' = Append(components, component)
    /\ pc' = "keys"
    /\ UNCHANGED <<graph, op, start, target, visited, queue, result, current,
                   path, pending, component, keyIdx, ret, nEnq, nDeq>>

\* the keys are exhausted: return components
CcReturn ==
    /\ op = "cc" /\ pc = "keys"
    /\ keyIdx > Len(graph)
    /\ ret' = [kind |-> "lists", val |-> components]
    /\ pc' = "done"
    /\ UNCHANGED <<graph, op, start, target, visited, queue, result, current,
                   path, pending, components, component, keyIdx, nEnq, nDeq>>

----------------------------------------------------------------------------
Next ==
    \/ BfsRaise
    \/ BfsStart
    \/ BfsDequeue
    \/ BfsScan
    \/ BfsReturn
    \/ SpReturnMissing
    \/ SpReturnTrivial
    \/ SpStart
    \/ SpDequeue
    \/ SpFound
    \/ SpScan
    \/ SpReturnNone
    \/ CcStart
    \/ CcSkipKey
    \/ CcSeed
    \/ CcDequeue
    \/ CcScan
    \/ CcAppend
    \/ CcReturn

Spec == Init /\ [][Next]_vars

\* A call runs to its end: no suspension points, nothing else to schedule.
FairSpec == Spec /\ WF_vars(Next)

----------------------------------------------------------------------------
\* Graph theory the properties are stated in, defined on the adjacency
\* relation alone.

\* The edges u -> v: v is in the adjacency list of key u.
Edges(g) ==
    UNION { {<<g[i].key, g[i].adj[j]>> : j \in 1..Len(g[i].adj)} :
            i \in 1..Len(g) }

\* Every vertex some adjacency list names.
Targets(g) == {e[2] : e \in Edges(g)}

\* The edges with their reverses: the relation traversed ignoring direction.
UndirectedEdges(g) == Edges(g) \cup {<<e[2], e[1]>> : e \in Edges(g)}

\* The vertices at most k edges of E away from s.
RECURSIVE Within(_, _, _)
Within(E, s, k) ==
    IF k = 0
    THEN {s}
    ELSE LET W == Within(E, s, k - 1)
         IN  W \cup {e[2] : e \in {d \in E : d[1] \in W}}

\* A shortest path visits no vertex twice, so NumVertices edges reach
\* everything reachable.
Reachable(g, s) == Within(Edges(g), s, NumVertices)

\* The fewest edges of a path from s to v (v reachable from s).
Depth(g, s, v) ==
    CHOOSE k \in 0..NumVertices :
        /\ v \in Within(Edges(g), s, k)
        /\ \A j \in 0..(k - 1) : v \notin Within(Edges(g), s, j)

\* u and v are joined by a path that ignores edge direction.
Joined(g, u, v) == v \in Within(UndirectedEdges(g), u, NumVertices)

\* The graph is undirected: every edge is listed from both of its ends.
Symmetric(g) == \A e \in Edges(g) : <<e[2], e[1]>> \in Edges(g)

\* The set of a list's elements.
Range(s) == {s[i] : i \in 1..Len(s)}

NoDuplicates(s) == \A i, j \in 1..Len(s) : i # j => s[i] # s[j]

RECURSIVE Flatten(_)
Flatten(ss) == IF ss = <<>> THEN <<>> ELSE Head(ss) \o Flatten(Tail(ss))

BfsDone == op = "bfs" /\ pc = "done"
SpDone == op = "sp" /\ pc = "done"
CcDone == op = "cc" /\ pc = "done"

\* u and v are in one component of the returned list cs.
SameComponent(cs, u, v) ==
    \E i \in 1..Len(cs) : u \in Range(cs[i]) /\ v \in Range(cs[i])

----------------------------------------------------------------------------
\* C1: breadth_first_search from a key returns exactly the vertices
\* reachable from the start (keys or not), each once, the start first, in
\* non-decreasing order of their depth.
C1_BfsOrder ==
    (BfsDone /\ start \in Keys(graph)) =>
        /\ ret.kind = "list"
        /\ Range(ret.val) = Reachable(graph, start)
        /\ NoDuplicates(ret.val)
        /\ Len(ret.val) = Cardinality(Reachable(graph, start))
        /\ ret.val[1] = start
        /\ \A i, j \in 1..Len(ret.val) :
               i < j => Depth(graph, start, ret.val[i])
                          <= Depth(graph, start, ret.val[j])

\* A traversal of three vertices, two levels deep, ending in a vertex that
\* is no key.
C1_Witness ==
    /\ BfsDone /\ ret.kind = "list"
    /\ Len(ret.val) = 3
    /\ Depth(graph, start, ret.val[3]) = 2
    /\ ret.val[3] \notin Keys(graph)

\* C2: a path bfs_shortest_path returns leads from start to target along
\* edges, repeats no vertex, and has as many edges as the depth of the
\* target, so no path from start to target has fewer.
C2_ShortestPath ==
    (SpDone /\ ret.kind = "list") =>
        LET p == ret.val IN
        /\ Len(p) >= 1
        /\ p[1] = start
        /\ p[Len(p)] = target
        /\ \A i \in 1..(Len(p) - 1) : <<p[i], p[i + 1]>> \in Edges(graph)
        /\ NoDuplicates(p)
        /\ target \in Reachable(graph, start)
        /\ Len(p) - 1 = Depth(graph, start, target)
        /\ \A k \in 0..(Len(p) - 2) : target \notin Within(Edges(graph), start, k)

\* A returned path of two edges whose target is also reached by a longer
\* walk through a cycle.
C2_Witness ==
    /\ SpDone /\ ret.kind = "list"
    /\ Len(ret.val) = 3
    /\ Cardinality(Edges(graph)) = 3

\* C3: bfs_shortest_path returns None exactly when the target is
\* unreachable from the start or one of the two is no key; it never raises,
\* and returns [s] for s = t a key.
C3_NoneIff ==
    SpDone =>
        /\ ret.kind \in {"none", "list"}
        /\ (ret.kind = "none") <=>
               (\/ target \notin Reachable(graph, start)
                \/ start \notin Keys(graph)
                \/ target \notin Keys(graph))
        /\ (start = target /\ start \in Keys(graph)) =>
               ret = [kind |-> "list", val |-> <<start>>]

\* None for a target that is a key of the graph but cannot be reached.
C3_Witness ==
    /\ SpDone /\ ret.kind = "none"
    /\ start \in Keys(graph) /\ target \in Keys(graph)
    /\ Get(graph, start) # <<>>
    /\ nDeq[start] = 1

\* C4: breadth_first_search raises exactly when the start is no key, before
\* any traversal step; a vertex without an adjacency entry reached on the
\* way raises nothing.
C4_RaiseIff ==
    BfsDone =>
        /\ ret.kind \in {"error", "list"}
        /\ (ret.kind = "error") <=> (start \notin Keys(graph))
        /\ (ret.kind = "error") =>
               /\ visited = {} /\ queue = <<>> /\ result = <<>>
               /\ nEnq = Zero /\ nDeq = Zero

\* A traversal that returned although it dequeued a vertex that is no key.
C4_Witness ==
    /\ BfsDone /\ ret.kind = "list"
    /\ \E v \in Range(ret.val) : v \notin Keys(graph) /\ nDeq[v] = 1

\* C5: in the components returned every key is in exactly one component,
\* and no vertex is in two components or twice in one.
C5_Disjoint ==
    CcDone =>
        /\ NoDuplicates(Flatten(ret.val))
        /\ \A k \in Keys(graph) :
               Cardinality({i \in 1..Len(ret.val) : k \in Range(ret.val[i])}) = 1

\* Two components, one of them with a vertex that is no key.
C5_Witness ==
    /\ CcDone
    /\ Len(ret.val) = 2
    /\ \E v \in Range(Flatten(ret.val)) : v \notin Keys(graph)

\* C6 as stated: the union of the components equals the key set.
C6_UnionIsKeys ==
    CcDone => Range(Flatten(ret.val)) = Keys(graph)

\* C6, amended: the union of the components is the key set together with
\* every vertex an adjacency list names; it is the key set when every such
\* vertex is a key.
C6_UnionIsKeysAndTargets ==
    CcDone =>
        /\ Range(Flatten(ret.val)) = Keys(graph) \cup Targets(graph)
        /\ (Targets(graph) \subseteq Keys(graph)) =>
               Range(Flatten(ret.val)) = Keys(graph)

\* Components of a graph with two keys and a named vertex that is no key.
C6_Witness ==
    /\ CcDone
    /\ Cardinality(Keys(graph)) = 2
    /\ Len(ret.val) = 2
    /\ ~ (Targets(graph) \subseteq Keys(graph))

\* C7 as stated: two keys are in the same returned component exactly when
\* a path ignoring edge direction joins them, in any graph.
C7_WeakComponents ==
    CcDone =>
        \A u, v \in Keys(graph) :
            SameComponent(ret.val, u, v) <=> Joined(graph, u, v)

\* C7, amended: two vertices of one returned component are always joined by
\* a path ignoring edge direction; in an undirected graph (every edge
\* listed from both ends) the converse holds too, and every component is
\* the whole set of vertices joined to its first vertex.
C7_UndirectedComponents ==
    CcDone =>
        /\ \A u, v \in Vertices :
               SameComponent(ret.val, u, v) => Joined(graph, u, v)
        /\ Symmetric(graph) =>
               /\ \A u, v \in Keys(graph) :
                      SameComponent(ret.val, u, v) <=> Joined(graph, u, v)
               /\ \A i \in 1..Len(ret.val) :
                      Range(ret.val[i]) =
                          {v \in Vertices : Joined(graph, ret.val[i][1], v)}

\* An undirected graph with an edge between two vertices and a third
\* vertex apart.
C7_Witness ==
    /\ CcDone
    /\ Symmetric(graph)
    /\ Len(ret.val) = 2
    /\ \E i \in 1..Len(ret.val) : Len(ret.val[i]) = 2

\* C8 as stated: a key with an empty adjacency list is a component of its
\* own.
C8_EmptyIsSingleton ==
    CcDone =>
        \A v \in Keys(graph) :
            Get(graph, v) = <<>> => \E i \in 1..Len(ret.val) : ret.val[i] = <<v>>

\* C8, amended: a key with an empty adjacency list that no adjacency list
\* names is a component of its own.
C8_IsolatedIsSingleton ==
    CcDone =>
        \A v \in Keys(graph) :
            (Get(graph, v) = <<>> /\ v \notin Targets(graph)) =>
                \E i \in 1..Len(ret.val) : ret.val[i] = <<v>>

\* A key with an empty list that nothing names, after a component of two.
C8_Witness ==
    /\ CcDone
    /\ Len(ret.val) = 2
    /\ Len(ret.val[1]) = 2
    /\ \E v \in Keys(graph) :
           Get(graph, v) = <<>> /\ v \notin Targets(graph) /\ ret.val[2] = <<v>>

\* The vertices emitted so far by the running call.
Emitted ==
    IF op = "bfs" THEN result
    ELSE IF pc \in {"while", "for"} THEN Flatten(components) \o component
    ELSE Flatten(components)

\* A step of the two functions removes nothing from the visited set.
VisitedGrows == op \in {"bfs", "cc"} => (visited \subseteq visited')

\* C9: at every step of breadth_first_search and bfs_connected_components
\* the visited set is the emitted vertices together with the queued ones,
\* the two are disjoint and without duplicates, and the visited set only
\* grows.
C9_VisitedInvariant ==
    /\ [](op \in {"bfs", "cc"} =>
            /\ visited = Range(Emitted) \cup Range(queue)
            /\ NoDuplicates(Emitted \o queue))
    /\ [][VisitedGrows]_vars

\* In the middle of the second component: a vertex emitted, one queued.
C9_Witness ==
    /\ op = "cc" /\ pc = "for"
    /\ Len(components) = 1
    /\ Len(component) = 1
    /\ Len(queue) = 1

\* C10: every call ends, and within a call no vertex is enqueued or
\* dequeued more than once.
C10_Terminates ==
    /\ <>(pc = "done")
    /\ [](\A v \in Vertices : nEnq[v] <= 1 /\ nDeq[v] <= 1)

\* A call on a graph with a self-loop and a cycle of two that has ended.
C10_Witness ==
    /\ pc = "done"
    /\ \E u, v \in Vertices :
           /\ u # v
           /\ {<<u, u>>, <<u, v>>, <<v, u>>} \subseteq Edges(graph)
           /\ nDeq[u] = 1 /\ nDeq[v] = 1

====
